---------------------------- MODULE Spec2Model ----------------------------
(***************************************************************************)
(* A model of the pricing core of the token-swap program: the curve        *)
(* calculators (constant product, constant price, offset), the fee         *)
(* calculator and the pool that applies their results.                     *)
(*                                                                         *)
(* Integers are modelled with scaled-down widths: U64_MAX and U128_MAX     *)
(* stand for u64::MAX and u128::MAX, with U64_MAX * U64_MAX <= U128_MAX as *)
(* in the program.  Every checked_* operation fails (None) exactly when    *)
(* the mathematical result leaves the modelled width, as the Rust          *)
(* operation does.                                                         *)
(***************************************************************************)
EXTENDS Integers, Sequences, FiniteSets, TLC

VARIABLES
    curve,        \* kind of the pool's curve calculator
    param,        \* its parameter: token_b_price, token_b_offset, or 0
    token_a,      \* reserve of token A held by the pool
    token_b,      \* reserve of token B held by the pool
    pool_mint_supply,  \* pool tokens in circulation
    last,         \* the operation that produced this state, with the state before it
    pc,           \* "idle" before a library call, "done" after it
    call,         \* the library call made: function name and arguments
    result        \* what the call returned

vars == <<curve, param, token_a, token_b, pool_mint_supply, last, pc, call, result>>

---------------------------------------------------------------------------
(* Widths and bounds *)

U64_MAX == 40000
U128_MAX == 2000000000

MaxReserve == 9
MaxSupply == 6
MaxAmount == 6
MaxPrice == 3
MaxOffset == 2
MaxArg == 5
MaxFee == 2

---------------------------------------------------------------------------
(* Option<T>: None is the empty tuple, Some(v) the one-element tuple *)

None == <<>>
Some(v) == <<v>>
IsSome(o) == Len(o) = 1
IsNone(o) == Len(o) = 0
Unwrap(o) == o[1]

(* u128 checked arithmetic *)
checked_add(a, b) == IF b > U128_MAX - a THEN None ELSE Some(a + b)
checked_sub(a, b) == IF b > a THEN None ELSE Some(a - b)
checked_mul(a, b) == IF a # 0 /\ b > U128_MAX \div a THEN None ELSE Some(a * b)
checked_div(a, b) == IF b = 0 THEN None ELSE Some(a \div b)
checked_rem(a, b) == IF b = 0 THEN None ELSE Some(a % b)
saturating_sub(a, b) == IF b > a THEN 0 ELSE a - b

AtoB == "AtoB"
BtoA == "BtoA"
TradeDirection == {AtoB, BtoA}

Floor == "Floor"
Ceiling == "Ceiling"
RoundDirection == {Floor, Ceiling}

INITIAL_SWAP_POOL_AMOUNT == 1000000000

(* calculator.rs: map_zero_to_none *)
map_zero_kept(x) == Some(x)
map_zero_to_none(x) == IF x = 0 THEN None ELSE Some(x)

(* calculator.rs: TradeDirection::opposite *)
opposite_unchanged(d) == d
opposite(d) == IF d = AtoB THEN BtoA ELSE AtoB

(***************************************************************************)
(* CheckedCeilDiv for u128 (spl_math): the ceiling of self / rhs together  *)
(* with the smallest divisor that still yields that quotient.  A quotient  *)
(* of zero is not rounded up to a usable result: the divisor returned is 0.*)
(***************************************************************************)
checked_ceil_div(self, rhs) ==
    IF rhs = 0 THEN None
    ELSE LET quotient == self \div rhs
             q1 == quotient + 1
             rhs1 == IF self % q1 > 0 THEN (self \div q1) + 1 ELSE self \div q1
         IN IF quotient = 0
            THEN IF IsNone(checked_mul(self, 2)) THEN None
                 ELSE IF self * 2 >= rhs THEN Some(<<1, 0>>) ELSE Some(<<0, 0>>)
            ELSE IF self % rhs > 0
                 THEN IF quotient >= U128_MAX \/ rhs1 > U128_MAX THEN None
                      ELSE Some(<<q1, rhs1>>)
                 ELSE Some(<<quotient, rhs>>)

---------------------------------------------------------------------------
(* constant_product.rs *)

swap_floor_div(source_amount, swap_source_amount, swap_destination_amount) ==
    LET invariant == checked_mul(swap_source_amount, swap_destination_amount)
        new_src == checked_add(swap_source_amount, source_amount)
        new_dst == checked_div(Unwrap(invariant), Unwrap(new_src))
        dst == checked_sub(swap_destination_amount, Unwrap(new_dst))
    IN IF IsNone(invariant) \/ IsNone(new_src) THEN None
       ELSE IF IsNone(new_dst) THEN None
       ELSE IF IsNone(dst) \/ Unwrap(dst) = 0 THEN None
       ELSE Some([source_amount_swapped |-> source_amount,
                  destination_amount_swapped |-> Unwrap(dst)])

(* The constant product swap calculation *)
swap(source_amount, swap_source_amount, swap_destination_amount) ==
    LET invariant == checked_mul(swap_source_amount, swap_destination_amount)
        new_src == checked_add(swap_source_amount, source_amount)
        cd == checked_ceil_div(Unwrap(invariant), Unwrap(new_src))
        new_swap_destination_amount == Unwrap(cd)[1]
        new_swap_source_amount == Unwrap(cd)[2]
        source_amount_swapped == checked_sub(new_swap_source_amount, swap_source_amount)
        dst == checked_sub(swap_destination_amount, new_swap_destination_amount)
        destination_amount_swapped == map_zero_to_none(Unwrap(dst))
    IN IF IsNone(invariant) THEN None
       ELSE IF IsNone(new_src) THEN None
       ELSE IF IsNone(cd) THEN None
       ELSE IF IsNone(source_amount_swapped) THEN None
       ELSE IF IsNone(dst) THEN None
       ELSE IF IsNone(destination_amount_swapped) THEN None
       ELSE Some([source_amount_swapped |-> Unwrap(source_amount_swapped),
                  destination_amount_swapped |-> Unwrap(destination_amount_swapped)])

pool_tokens_to_trading_tokens_always_up(pool_tokens, pool_token_supply, swap_token_a_amount, swap_token_b_amount, round_direction) ==
    LET mul_a == checked_mul(pool_tokens, swap_token_a_amount)
        mul_b == checked_mul(pool_tokens, swap_token_b_amount)
        a == Unwrap(mul_a) \div pool_token_supply
        b == Unwrap(mul_b) \div pool_token_supply
        up(x, m) == IF round_direction = Ceiling /\ m % pool_token_supply > 0
                    THEN x + 1 ELSE x
    IN IF IsNone(mul_a) \/ IsNone(mul_b) \/ pool_token_supply = 0 THEN None
       ELSE Some([token_a_amount |-> up(a, Unwrap(mul_a)),
                  token_b_amount |-> up(b, Unwrap(mul_b))])

pool_tokens_to_trading_tokens_no_round(pool_tokens, pool_token_supply, swap_token_a_amount, swap_token_b_amount, round_direction) ==
    LET mul_a == checked_mul(pool_tokens, swap_token_a_amount)
        mul_b == checked_mul(pool_tokens, swap_token_b_amount)
    IN IF IsNone(mul_a) \/ IsNone(mul_b) \/ pool_token_supply = 0 THEN None
       ELSE Some([token_a_amount |-> Unwrap(mul_a) \div pool_token_supply,
                  token_b_amount |-> Unwrap(mul_b) \div pool_token_supply])

(* Trading tokens that correspond to a number of pool tokens: a plain ratio *)
pool_tokens_to_trading_tokens(pool_tokens, pool_token_supply, swap_token_a_amount, swap_token_b_amount, round_direction) ==
    LET mul_a == checked_mul(pool_tokens, swap_token_a_amount)
        div_a == checked_div(Unwrap(mul_a), pool_token_supply)
        mul_b == checked_mul(pool_tokens, swap_token_b_amount)
        div_b == checked_div(Unwrap(mul_b), pool_token_supply)
        token_a_remainder == Unwrap(mul_a) % pool_token_supply
        token_b_remainder == Unwrap(mul_b) % pool_token_supply
        a0 == Unwrap(div_a)
        b0 == Unwrap(div_b)
        a1 == IF token_a_remainder > 0 /\ a0 > 0 THEN a0 + 1 ELSE a0
        b1 == IF token_b_remainder > 0 /\ b0 > 0 THEN b0 + 1 ELSE b0
    IN IF IsNone(mul_a) THEN None
       ELSE IF IsNone(div_a) THEN None
       ELSE IF IsNone(mul_b) THEN None
       ELSE IF IsNone(div_b) THEN None
       ELSE IF round_direction = Floor
            THEN Some([token_a_amount |-> a0, token_b_amount |-> b0])
            ELSE Some([token_a_amount |-> a1, token_b_amount |-> b1])


---------------------------------------------------------------------------
(***************************************************************************)
(* PreciseNumber: a non-negative value scaled by the precision constant    *)
(* ONE.  A value is the record [w, f]: w whole units and f < ONE parts of  *)
(* a unit, so that pool supplies near INITIAL_SWAP_POOL_AMOUNT fit.  The   *)
(* inner width is wide enough for every value the operations below are     *)
(* applied to, so only division by zero and negative results fail.         *)
(***************************************************************************)
ONE == 10000

PN(w, f) == [w |-> w, f |-> f]
PN_scaled(x) == x.w * ONE + x.f
PN_from_scaled(v) == PN(v \div ONE, v % ONE)
PN_less_than_or_equal(x, y) == x.w < y.w \/ (x.w = y.w /\ x.f <= y.f)

PreciseNumber_new(value) == Some(PN(value, 0))

(* a * b for b <= ONE, as <<a * b \div ONE, a * b % ONE>>, without leaving the integers *)
MulHi(a, b) == (a \div ONE) * b + ((a % ONE) * b) \div ONE
MulLo(a, b) == ((a % ONE) * b) % ONE

PN_checked_add(x, y) == Some(PN(x.w + y.w + (x.f + y.f) \div ONE, (x.f + y.f) % ONE))

PN_checked_sub(x, y) ==
    IF ~PN_less_than_or_equal(y, x) THEN None
    ELSE IF x.f >= y.f THEN Some(PN(x.w - y.w, x.f - y.f))
    ELSE Some(PN(x.w - y.w - 1, x.f + ONE - y.f))

(* (x * y + ONE / 2) / ONE on the scaled values *)
PN_checked_mul(x, y) ==
    LET t == (x.f * y.f + ONE \div 2) \div ONE
        lo == MulLo(x.w, y.f) + MulLo(y.w, x.f) + t
        hi == MulHi(x.w, y.f) + MulHi(y.w, x.f) + lo \div ONE
    IN Some(PN(x.w * y.w + hi, lo % ONE))

(* (x * ONE + ONE / 2) / y on the scaled values *)
PN_checked_div(x, y) ==
    IF PN_scaled(y) = 0 THEN None
    ELSE Some(PN_from_scaled((PN_scaled(x) * ONE + ONE \div 2) \div PN_scaled(y)))

(* r * r <= v * ONE, computed on the two digits of r in base ONE *)
SquareFits(r, v) ==
    LET rh == r \div ONE
        rl == r % ONE
    IN /\ rh = 0 \/ rh <= (v \div ONE) \div rh
       /\ rh * rh * ONE + 2 * rh * rl + (rl * rl + ONE - 1) \div ONE <= v

RECURSIVE ISqrtBetween(_, _, _)
ISqrtBetween(v, lo, hi) ==
    IF lo >= hi THEN lo
    ELSE LET mid == (lo + hi + 1) \div 2
         IN IF SquareFits(mid, v) THEN ISqrtBetween(v, mid, hi)
            ELSE ISqrtBetween(v, lo, mid - 1)

(* the largest r with r * r <= v * ONE *)
ISqrt(v) == ISqrtBetween(v, 0, IF v > ONE THEN v ELSE ONE)

(* square root to the precision of the scale: result^2 <= self < (result + 1/ONE)^2 *)
PN_sqrt(x) == Some(PN_from_scaled(ISqrt(PN_scaled(x))))

PN_floor(x) == Some(PN(x.w, 0))
PN_ceiling(x) == Some(PN(IF x.f > 0 THEN x.w + 1 ELSE x.w, 0))
PN_to_imprecise(x) ==
    LET v == x.w + (x.f + ONE \div 2) \div ONE
    IN IF v > U128_MAX THEN None ELSE Some(v)

---------------------------------------------------------------------------
(* constant_product.rs, continued *)

(* Pool tokens for a deposit of one token type: pool_supply * (sqrt(1 + source / reserve) - 1) *)
deposit_single_token_type(source_amount, swap_token_a_amount, swap_token_b_amount, pool_supply, trade_direction, round_direction) ==
    LET swap_source_amount == IF trade_direction = AtoB THEN swap_token_a_amount
                              ELSE swap_token_b_amount
        ratio == PN_checked_div(PN(source_amount, 0), PN(swap_source_amount, 0))
        one == PN(1, 0)
        base == PN_checked_add(one, Unwrap(ratio))
        sq == PN_sqrt(Unwrap(base))
        root == PN_checked_sub(Unwrap(sq), one)
        pool_tokens == PN_checked_mul(PN(pool_supply, 0), Unwrap(root))
        rounded == IF round_direction = Floor THEN PN_floor(Unwrap(pool_tokens))
                   ELSE PN_ceiling(Unwrap(pool_tokens))
    IN IF IsNone(ratio) THEN None
       ELSE IF IsNone(root) THEN None
       ELSE PN_to_imprecise(Unwrap(rounded))

(* The square root of the Uniswap invariant *)
normalized_value(swap_token_a_amount, swap_token_b_amount) ==
    LET product == PN_checked_mul(PN(swap_token_a_amount, 0), PN(swap_token_b_amount, 0))
    IN PN_sqrt(Unwrap(product))

(* Pool tokens for a withdrawal of one token type: pool_supply * (1 - sqrt(1 - source / reserve)) *)
withdraw_single_token_type_exact_out(source_amount, swap_token_a_amount, swap_token_b_amount, pool_supply, trade_direction, round_direction) ==
    LET swap_source_amount == IF trade_direction = AtoB THEN swap_token_a_amount
                              ELSE swap_token_b_amount
        ratio == PN_checked_div(PN(source_amount, 0), PN(swap_source_amount, 0))
        one == PN(1, 0)
        base == PN_checked_sub(one, Unwrap(ratio))
        sq == PN_sqrt(Unwrap(base))
        root == PN_checked_sub(one, Unwrap(sq))
        pool_tokens == PN_checked_mul(PN(pool_supply, 0), Unwrap(root))
        rounded == IF round_direction = Floor THEN PN_floor(Unwrap(pool_tokens))
                   ELSE PN_ceiling(Unwrap(pool_tokens))
    IN IF IsNone(ratio) THEN None
       ELSE IF IsNone(base) THEN None
       ELSE IF IsNone(root) THEN None
       ELSE PN_to_imprecise(Unwrap(rounded))

ConstantProductCurve_swap_without_fees(source_amount, swap_source_amount, swap_destination_amount, trade_direction) ==
    swap(source_amount, swap_source_amount, swap_destination_amount)

ConstantProductCurve_deposit_single_token_type(source_amount, swap_token_a_amount, swap_token_b_amount, pool_supply, trade_direction) ==
    deposit_single_token_type(source_amount, swap_token_a_amount, swap_token_b_amount, pool_supply, trade_direction, Floor)

ConstantProductCurve_withdraw_single_token_type_exact_out(source_amount, swap_token_a_amount, swap_token_b_amount, pool_supply, trade_direction) ==
    withdraw_single_token_type_exact_out(source_amount, swap_token_a_amount, swap_token_b_amount, pool_supply, trade_direction, Ceiling)

---------------------------------------------------------------------------
(* constant_price.rs *)

ConstantPriceCurve_swap_wrong_way(token_b_price, source_amount, trade_direction) ==
    LET mul == checked_mul(source_amount, token_b_price)
    IN IF IsNone(mul) \/ source_amount = 0 \/ token_b_price = 0 THEN None
       ELSE Some([source_amount_swapped |-> source_amount,
                  destination_amount_swapped |-> Unwrap(mul)])

ConstantPriceCurve_swap_untrimmed(token_b_price, source_amount, trade_direction) ==
    LET mul == checked_mul(source_amount, token_b_price)
        quot == checked_div(source_amount, token_b_price)
        dst == IF trade_direction = BtoA THEN mul ELSE quot
    IN IF IsNone(dst) \/ source_amount = 0 THEN None
       ELSE IF Unwrap(dst) = 0 THEN None
       ELSE Some([source_amount_swapped |-> source_amount,
                  destination_amount_swapped |-> Unwrap(dst)])

(* The reserves passed to swap_without_fees are not read *)
ConstantPriceCurve_swap_without_fees(token_b_price, source_amount, trade_direction) ==
    LET mul == checked_mul(source_amount, token_b_price)
        quot == checked_div(source_amount, token_b_price)
        remainder == checked_rem(source_amount, token_b_price)
        trimmed == IF Unwrap(remainder) > 0
                   THEN checked_sub(source_amount, Unwrap(remainder))
                   ELSE Some(source_amount)
        pair == IF trade_direction = BtoA
                THEN IF IsNone(mul) THEN None ELSE Some(<<source_amount, Unwrap(mul)>>)
                ELSE IF IsNone(quot) THEN None
                     ELSE IF IsNone(remainder) THEN None
                     ELSE IF IsNone(trimmed) THEN None
                     ELSE Some(<<Unwrap(trimmed), Unwrap(quot)>>)
        source_amount_swapped == map_zero_to_none(Unwrap(pair)[1])
        destination_amount_swapped == map_zero_to_none(Unwrap(pair)[2])
    IN IF IsNone(pair) THEN None
       ELSE IF IsNone(source_amount_swapped) THEN None
       ELSE IF IsNone(destination_amount_swapped) THEN None
       ELSE Some([source_amount_swapped |-> Unwrap(source_amount_swapped),
                  destination_amount_swapped |-> Unwrap(destination_amount_swapped)])

(* (token A + token B * price) / 2 *)
ConstantPriceCurve_normalized_value(token_b_price, swap_token_a_amount, swap_token_b_amount) ==
    LET swap_token_b_value == checked_mul(swap_token_b_amount, token_b_price)
        bv == Unwrap(swap_token_b_value)
        halves == checked_add(bv \div 2, swap_token_a_amount \div 2)
        sum == checked_add(swap_token_a_amount, bv)
        value == IF saturating_sub(bv, U64_MAX) > saturating_sub(U128_MAX, U64_MAX)
                 THEN halves
                 ELSE IF IsNone(sum) THEN None ELSE Some(Unwrap(sum) \div 2)
    IN IF IsNone(swap_token_b_value) THEN None
       ELSE IF IsNone(value) THEN None
       ELSE PreciseNumber_new(Unwrap(value))

ConstantPriceCurve_pool_tokens_to_trading_tokens(token_b_price, pool_tokens, pool_token_supply, swap_token_a_amount, swap_token_b_amount, round_direction) ==
    LET nv == ConstantPriceCurve_normalized_value(token_b_price, swap_token_a_amount, swap_token_b_amount)
        total_value == PN_to_imprecise(Unwrap(nv))
        mul == checked_mul(pool_tokens, Unwrap(total_value))
        fa == checked_div(Unwrap(mul), pool_token_supply)
        fb1 == checked_div(Unwrap(mul), token_b_price)
        fb == checked_div(Unwrap(fb1), pool_token_supply)
        ca == checked_ceil_div(Unwrap(mul), pool_token_supply)
        cb1 == checked_ceil_div(Unwrap(mul), token_b_price)
        cb == checked_ceil_div(Unwrap(cb1)[1], pool_token_supply)
    IN IF IsNone(nv) THEN None
       ELSE IF IsNone(total_value) THEN None
       ELSE IF IsNone(mul) THEN None
       ELSE IF round_direction = Floor
            THEN IF IsNone(fa) \/ IsNone(fb1) THEN None
                 ELSE IF IsNone(fb) THEN None
                 ELSE Some([token_a_amount |-> Unwrap(fa), token_b_amount |-> Unwrap(fb)])
            ELSE IF IsNone(ca) \/ IsNone(cb1) THEN None
                 ELSE IF IsNone(cb) THEN None
                 ELSE Some([token_a_amount |-> Unwrap(ca)[1], token_b_amount |-> Unwrap(cb)[1]])

(***************************************************************************)
(* U256 (spl_math::uint): the wide integer of trading_tokens_to_pool_tokens.*)
(* Its modelled width is the widest this model computes in; the calls      *)
(* explored keep every wide product inside it, so a wide operation fails   *)
(* only on a division by zero.  as_u128 converts with an overflow check    *)
(* that panics.                                                            *)
(***************************************************************************)
U256_MAX == 2147483647

U256_checked_add(a, b) == IF b > U256_MAX - a THEN None ELSE Some(a + b)
U256_checked_mul(a, b) == IF a # 0 /\ b > U256_MAX \div a THEN None ELSE Some(a * b)
U256_checked_div(a, b) == IF b = 0 THEN None ELSE Some(a \div b)

U256_checked_ceil_div(self, rhs) ==
    IF rhs = 0 THEN None
    ELSE LET quotient == self \div rhs
             q1 == quotient + 1
             rhs1 == IF self % q1 > 0 THEN (self \div q1) + 1 ELSE self \div q1
         IN IF quotient = 0
            THEN IF IsNone(U256_checked_mul(self, 2)) THEN None
                 ELSE IF self * 2 >= rhs THEN Some(<<1, 0>>) ELSE Some(<<0, 0>>)
            ELSE IF self % rhs > 0
                 THEN IF quotient >= U256_MAX \/ rhs1 > U256_MAX THEN None
                      ELSE Some(<<q1, rhs1>>)
                 ELSE Some(<<quotient, rhs>>)

(* The outcome of a call that can panic: it returned value, or it panicked *)
Returned_value(v) == [panicked |-> FALSE, value |-> v]
Panic == [panicked |-> TRUE, value |-> None]

as_u128(x) == IF x > U128_MAX THEN Panic ELSE Returned_value(Some(x))

(* The conversion taking token B at the value of token A *)
trading_tokens_to_pool_tokens_unpriced(token_b_price, source_amount, swap_token_a_amount, swap_token_b_amount, pool_supply, trade_direction, round_direction) ==
    LET b_value == U256_checked_mul(swap_token_b_amount, token_b_price)
        tatal_value == U256_checked_add(Unwrap(b_value), swap_token_a_amount)
        product == U256_checked_mul(pool_supply, source_amount)
        floored == U256_checked_div(Unwrap(product), Unwrap(tatal_value))
        ceiled == U256_checked_ceil_div(Unwrap(product), Unwrap(tatal_value))
    IN IF IsNone(b_value) THEN Returned_value(None)
       ELSE IF IsNone(tatal_value) THEN Returned_value(None)
       ELSE IF IsNone(product) THEN Returned_value(None)
       ELSE IF round_direction = Floor
            THEN IF IsNone(floored) THEN Returned_value(None) ELSE as_u128(Unwrap(floored))
            ELSE IF IsNone(ceiled) THEN Returned_value(None) ELSE as_u128(Unwrap(ceiled)[1])

(* Pool tokens for a deposit or withdrawal of one token type at the constant price *)
trading_tokens_to_pool_tokens(token_b_price, source_amount, swap_token_a_amount, swap_token_b_amount, pool_supply, trade_direction, round_direction) ==
    LET given_value == IF trade_direction = AtoB THEN Some(source_amount)
                       ELSE U256_checked_mul(source_amount, token_b_price)
        b_value == U256_checked_mul(swap_token_b_amount, token_b_price)
        tatal_value == U256_checked_add(Unwrap(b_value), swap_token_a_amount)
        product == U256_checked_mul(pool_supply, Unwrap(given_value))
        floored == U256_checked_div(Unwrap(product), Unwrap(tatal_value))
        ceiled == U256_checked_ceil_div(Unwrap(product), Unwrap(tatal_value))
    IN IF IsNone(given_value) THEN Returned_value(None)
       ELSE IF IsNone(b_value) THEN Returned_value(None)
       ELSE IF IsNone(tatal_value) THEN Returned_value(None)
       ELSE IF IsNone(product) THEN Returned_value(None)
       ELSE IF round_direction = Floor
            THEN IF IsNone(floored) THEN Returned_value(None) ELSE as_u128(Unwrap(floored))
            ELSE IF IsNone(ceiled) THEN Returned_value(None) ELSE as_u128(Unwrap(ceiled)[1])

ConstantPriceCurve_deposit_single_token_type(token_b_price, source_amount, swap_token_a_amount, swap_token_b_amount, pool_supply, trade_direction) ==
    trading_tokens_to_pool_tokens(token_b_price, source_amount, swap_token_a_amount, swap_token_b_amount, pool_supply, trade_direction, Floor)

ConstantPriceCurve_withdraw_single_token_type_exact_out(token_b_price, source_amount, swap_token_a_amount, swap_token_b_amount, pool_supply, trade_direction) ==
    trading_tokens_to_pool_tokens(token_b_price, source_amount, swap_token_a_amount, swap_token_b_amount, pool_supply, trade_direction, Ceiling)

---------------------------------------------------------------------------
(* stable.rs *)

N_COINS == 2
ITERATIONS == 32

compute_a(amp) == IF amp > U64_MAX \div N_COINS THEN None ELSE Some(amp * N_COINS)

(* a added to itself b - 1 times *)
RECURSIVE checked_u8_mul(_, _)
checked_u8_mul(a, b) ==
    IF b <= 1 THEN Some(a)
    ELSE LET rest == checked_u8_mul(a, b - 1)
         IN IF IsNone(rest) THEN None ELSE U256_checked_add(Unwrap(rest), a)

calculate_step_miscounted(initial_d, leverage, sum_x, d_product) ==
    LET leverage_mul == U256_checked_mul(leverage, sum_x)
        d_p_mul == checked_u8_mul(d_product, N_COINS)
        l_sum == U256_checked_add(Unwrap(leverage_mul), Unwrap(d_p_mul))
        l_val == U256_checked_mul(Unwrap(l_sum), initial_d)
        leverage_sub == U256_checked_mul(initial_d, leverage - 1)
        n_coins_sum == checked_u8_mul(d_product, N_COINS)
        r_val == U256_checked_add(Unwrap(leverage_sub), Unwrap(n_coins_sum))
    IN IF IsNone(leverage_mul) \/ IsNone(d_p_mul) THEN None
       ELSE IF IsNone(l_sum) THEN None
       ELSE IF IsNone(l_val) \/ leverage < 1 THEN None
       ELSE IF IsNone(leverage_sub) \/ IsNone(n_coins_sum) THEN None
       ELSE IF IsNone(r_val) THEN None
       ELSE U256_checked_div(Unwrap(l_val), Unwrap(r_val))

(* (leverage * sum_x + d_product * n_coins) * initial_d / ((leverage - 1) * initial_d + (n_coins + 1) * d_product) *)
calculate_step(initial_d, leverage, sum_x, d_product) ==
    LET leverage_mul == U256_checked_mul(leverage, sum_x)
        d_p_mul == checked_u8_mul(d_product, N_COINS)
        l_sum == U256_checked_add(Unwrap(leverage_mul), Unwrap(d_p_mul))
        l_val == U256_checked_mul(Unwrap(l_sum), initial_d)
        leverage_sub == U256_checked_mul(initial_d, leverage - 1)
        n_coins_sum == checked_u8_mul(d_product, N_COINS + 1)
        r_val == U256_checked_add(Unwrap(leverage_sub), Unwrap(n_coins_sum))
    IN IF IsNone(leverage_mul) \/ IsNone(d_p_mul) THEN None
       ELSE IF IsNone(l_sum) THEN None
       ELSE IF IsNone(l_val) \/ leverage < 1 THEN None
       ELSE IF IsNone(leverage_sub) \/ IsNone(n_coins_sum) THEN None
       ELSE IF IsNone(r_val) THEN None
       ELSE U256_checked_div(Unwrap(l_val), Unwrap(r_val))

(* The loop without its break: every one of the ITERATIONS steps is taken *)
RECURSIVE compute_d_loop_no_break(_, _, _, _, _, _)
compute_d_loop_no_break(d, done, leverage, sum_x, amount_a_times_coins, amount_b_times_coins) ==
    IF done = ITERATIONS THEN Some(<<d, done, FALSE>>)
    ELSE LET sq == U256_checked_mul(d, d)
             p1 == U256_checked_div(Unwrap(sq), amount_a_times_coins)
             cu == U256_checked_mul(Unwrap(p1), d)
             d_product == U256_checked_div(Unwrap(cu), amount_b_times_coins)
             next == calculate_step(d, leverage, sum_x, Unwrap(d_product))
         IN IF IsNone(sq) THEN None
            ELSE IF IsNone(p1) THEN None
            ELSE IF IsNone(cu) THEN None
            ELSE IF IsNone(d_product) THEN None
            ELSE IF IsNone(next) THEN None
            ELSE compute_d_loop_no_break(Unwrap(next), done + 1, leverage, sum_x, amount_a_times_coins, amount_b_times_coins)

(* Newton's method from d, with done iterations behind it: <<d, iterations run, stopped at a fixed point>> *)
RECURSIVE compute_d_loop(_, _, _, _, _, _)
compute_d_loop(d, done, leverage, sum_x, amount_a_times_coins, amount_b_times_coins) ==
    IF done = ITERATIONS THEN Some(<<d, done, FALSE>>)
    ELSE LET sq == U256_checked_mul(d, d)
             p1 == U256_checked_div(Unwrap(sq), amount_a_times_coins)
             cu == U256_checked_mul(Unwrap(p1), d)
             d_product == U256_checked_div(Unwrap(cu), amount_b_times_coins)
             next == calculate_step(d, leverage, sum_x, Unwrap(d_product))
         IN IF IsNone(sq) THEN None
            ELSE IF IsNone(p1) THEN None
            ELSE IF IsNone(cu) THEN None
            ELSE IF IsNone(d_product) THEN None
            ELSE IF IsNone(next) THEN None
            ELSE IF Unwrap(next) = d THEN Some(<<d, done + 1, TRUE>>)
            ELSE compute_d_loop(Unwrap(next), done + 1, leverage, sum_x, amount_a_times_coins, amount_b_times_coins)

(* compute_d entering the loop even when the reserves sum to zero *)
compute_d_run_always_iterating(leverage, amount_a, amount_b) ==
    LET sum_x == checked_add(amount_a, amount_b)
        run == compute_d_loop(Unwrap(sum_x), 0, leverage, Unwrap(sum_x), 2 * amount_a + 1, 2 * amount_b + 1)
        failed == [d |-> None, iterations |-> 0, converged |-> FALSE]
    IN IF IsNone(sum_x) THEN failed
       ELSE IF IsNone(run) THEN failed
       ELSE [d |-> IF Unwrap(run)[1] > U128_MAX THEN None ELSE Some(Unwrap(run)[1]),
             iterations |-> Unwrap(run)[2], converged |-> Unwrap(run)[3]]

(* The invariant D with the iterations it took: [d, iterations, converged] *)
compute_d_run(leverage, amount_a, amount_b) ==
    LET a2 == checked_u8_mul(amount_a, N_COINS)
        b2 == checked_u8_mul(amount_b, N_COINS)
        amount_a_times_coins == U256_checked_add(Unwrap(a2), 1)
        amount_b_times_coins == U256_checked_add(Unwrap(b2), 1)
        sum_x == checked_add(amount_a, amount_b)
        run == compute_d_loop(Unwrap(sum_x), 0, leverage, Unwrap(sum_x), Unwrap(amount_a_times_coins), Unwrap(amount_b_times_coins))
        failed == [d |-> None, iterations |-> 0, converged |-> FALSE]
    IN IF IsNone(a2) \/ IsNone(b2) THEN failed
       ELSE IF IsNone(amount_a_times_coins) \/ IsNone(amount_b_times_coins) THEN failed
       ELSE IF IsNone(sum_x) THEN failed
       ELSE IF Unwrap(sum_x) = 0 THEN [d |-> Some(0), iterations |-> 0, converged |-> FALSE]
       ELSE IF IsNone(run) THEN failed
       ELSE [d |-> IF Unwrap(run)[1] > U128_MAX THEN None ELSE Some(Unwrap(run)[1]),
             iterations |-> Unwrap(run)[2], converged |-> Unwrap(run)[3]]

compute_d(leverage, amount_a, amount_b) == compute_d_run(leverage, amount_a, amount_b).d

---------------------------------------------------------------------------
(* offset.rs *)

(* Constant product on token A and token B + offset *)
Offset_swap_without_fees(token_b_offset, source_amount, swap_source_amount, swap_destination_amount, trade_direction) ==
    LET src == IF trade_direction = AtoB THEN Some(swap_source_amount)
               ELSE checked_add(swap_source_amount, token_b_offset)
        dst == IF trade_direction = AtoB THEN checked_add(swap_destination_amount, token_b_offset)
               ELSE Some(swap_destination_amount)
    IN IF IsNone(src) THEN None
       ELSE IF IsNone(dst) THEN None
       ELSE swap(source_amount, Unwrap(src), Unwrap(dst))

(* The offset is read and not used *)
Offset_pool_tokens_to_trading_tokens(token_b_offset, pool_tokens, pool_token_supply, swap_token_a_amount, swap_token_b_amount, round_direction) ==
    pool_tokens_to_trading_tokens(pool_tokens, pool_token_supply, swap_token_a_amount, swap_token_b_amount, round_direction)

(* The offset is read and not used *)
Offset_deposit_single_token_type(token_b_offset, source_amount, swap_token_a_amount, swap_token_b_amount, pool_supply, trade_direction) ==
    deposit_single_token_type(source_amount, swap_token_a_amount, swap_token_b_amount, pool_supply, trade_direction, Floor)

(* The offset is read and not used *)
Offset_withdraw_single_token_type_exact_out(token_b_offset, source_amount, swap_token_a_amount, swap_token_b_amount, pool_supply, trade_direction) ==
    withdraw_single_token_type_exact_out(source_amount, swap_token_a_amount, swap_token_b_amount, pool_supply, trade_direction, Ceiling)

Offset_normalized_value(token_b_offset, swap_token_a_amount, swap_token_b_amount) ==
    LET b == checked_add(swap_token_b_amount, token_b_offset)
    IN IF IsNone(b) THEN None ELSE normalized_value(swap_token_a_amount, Unwrap(b))

Offset_allows_deposits_default == TRUE
Offset_allows_deposits == FALSE

(* calculator.rs: the default of CurveCalculator::allows_deposits *)
CurveCalculator_allows_deposits == TRUE

---------------------------------------------------------------------------
(* The curve calculators behind one interface (dyn CurveCalculator) *)

ConstantProduct == "ConstantProduct"
ConstantPrice == "ConstantPrice"
OffsetCurve == "Offset"
CurveKinds == {ConstantProduct, ConstantPrice, OffsetCurve}

swap_without_fees(c, p, source_amount, swap_source_amount, swap_destination_amount, trade_direction) ==
    CASE c = ConstantProduct -> ConstantProductCurve_swap_without_fees(source_amount, swap_source_amount, swap_destination_amount, trade_direction)
      [] c = ConstantPrice -> ConstantPriceCurve_swap_without_fees(p, source_amount, trade_direction)
      [] c = OffsetCurve -> Offset_swap_without_fees(p, source_amount, swap_source_amount, swap_destination_amount, trade_direction)

curve_pool_tokens_to_trading_tokens(c, p, pool_tokens, pool_token_supply, swap_token_a_amount, swap_token_b_amount, round_direction) ==
    CASE c = ConstantProduct -> pool_tokens_to_trading_tokens(pool_tokens, pool_token_supply, swap_token_a_amount, swap_token_b_amount, round_direction)
      [] c = ConstantPrice -> ConstantPriceCurve_pool_tokens_to_trading_tokens(p, pool_tokens, pool_token_supply, swap_token_a_amount, swap_token_b_amount, round_direction)
      [] c = OffsetCurve -> Offset_pool_tokens_to_trading_tokens(p, pool_tokens, pool_token_supply, swap_token_a_amount, swap_token_b_amount, round_direction)

curve_normalized_value(c, p, swap_token_a_amount, swap_token_b_amount) ==
    CASE c = ConstantProduct -> normalized_value(swap_token_a_amount, swap_token_b_amount)
      [] c = ConstantPrice -> ConstantPriceCurve_normalized_value(p, swap_token_a_amount, swap_token_b_amount)
      [] c = OffsetCurve -> Offset_normalized_value(p, swap_token_a_amount, swap_token_b_amount)

allows_deposits(c) == IF c = OffsetCurve THEN Offset_allows_deposits ELSE CurveCalculator_allows_deposits

---------------------------------------------------------------------------
(* Curve and supply validation *)

Ok == "Ok"
InvalidCurve == "InvalidCurve"
EmptySupply == "EmptySupply"
InvalidFee == "InvalidFee"

ConstantProductCurve_validate == Ok
ConstantPriceCurve_validate_any(token_b_price) == Ok
ConstantPriceCurve_validate(token_b_price) == IF token_b_price = 0 THEN InvalidCurve ELSE Ok
Offset_validate(token_b_offset) == IF token_b_offset = 0 THEN InvalidCurve ELSE Ok

(* calculator.rs: the default of CurveCalculator::validate_supply *)
CurveCalculator_validate_supply(token_a_amount, token_b_amount) ==
    IF token_a_amount = 0 THEN EmptySupply
    ELSE IF token_b_amount = 0 THEN EmptySupply
    ELSE Ok

validate_supply_needs_both(token_a_amount, token_b_amount) ==
    IF token_a_amount = 0 \/ token_b_amount = 0 THEN EmptySupply ELSE Ok

ConstantPriceCurve_validate_supply(token_a_amount, token_b_amount) ==
    IF token_a_amount = 0 THEN EmptySupply ELSE Ok

Offset_validate_supply(token_a_amount, token_b_amount) ==
    IF token_a_amount = 0 THEN EmptySupply ELSE Ok

validate(c, p) ==
    CASE c = ConstantProduct -> ConstantProductCurve_validate
      [] c = ConstantPrice -> ConstantPriceCurve_validate(p)
      [] c = OffsetCurve -> Offset_validate(p)

validate_supply(c, token_a_amount, token_b_amount) ==
    CASE c = ConstantProduct -> CurveCalculator_validate_supply(token_a_amount, token_b_amount)
      [] c = ConstantPrice -> ConstantPriceCurve_validate_supply(token_a_amount, token_b_amount)
      [] c = OffsetCurve -> Offset_validate_supply(token_a_amount, token_b_amount)

(* The supply for a new pool: the trait's default, which no curve overrides *)
new_pool_supply_by_curve(c) == IF c = ConstantProduct THEN INITIAL_SWAP_POOL_AMOUNT ELSE 0
new_pool_supply(c) == INITIAL_SWAP_POOL_AMOUNT

---------------------------------------------------------------------------
(***************************************************************************)
(* The pool.  A pool is created with a valid curve and a valid supply;     *)
(* its pool-token supply starts at INITIAL_SWAP_POOL_AMOUNT and withdrawals*)
(* bring it down to any smaller number, so the small supplies explored     *)
(* here are states of a pool late in its life.                             *)
(***************************************************************************)

NoCall == [fn |-> "none"]

Params(c) ==
    CASE c = ConstantProduct -> {0}
      [] c = ConstantPrice -> 1..MaxPrice
      [] c = OffsetCurve -> 1..MaxOffset

Before(op, amount) ==
    [op |-> op, a |-> token_a, b |-> token_b, supply |-> pool_mint_supply, amount |-> amount]

Init ==
    /\ curve \in CurveKinds
    /\ param \in Params(curve)
    /\ validate(curve, param) = Ok
    /\ token_a \in 0..MaxReserve
    /\ token_b \in 0..MaxReserve
    /\ validate_supply(curve, token_a, token_b) = Ok
    /\ pool_mint_supply \in 1..MaxSupply
    /\ last = [op |-> "init", a |-> token_a, b |-> token_b, supply |-> pool_mint_supply, amount |-> 0]
    /\ pc = "pool"
    /\ call = NoCall
    /\ result = None

(* A swap: the source reserve takes source_amount_swapped, the destination *)
(* reserve pays destination_amount_swapped, which it must hold.            *)
Swap(trade_direction, source_amount) ==
    LET src == IF trade_direction = AtoB THEN token_a ELSE token_b
        dst == IF trade_direction = AtoB THEN token_b ELSE token_a
        results == swap_without_fees(curve, param, source_amount, src, dst, trade_direction)
        new_src == src + Unwrap(results).source_amount_swapped
        new_dst == dst - Unwrap(results).destination_amount_swapped
    IN /\ pc = "pool"
       /\ IsSome(results)
       /\ Unwrap(results).destination_amount_swapped <= dst
       /\ new_src <= MaxReserve
       /\ token_a' = IF trade_direction = AtoB THEN new_src ELSE new_dst
       /\ token_b' = IF trade_direction = AtoB THEN new_dst ELSE new_src
       /\ last' = Before("swap", source_amount)
       /\ UNCHANGED <<curve, param, pool_mint_supply, pc, call, result>>

(* A deposit of both tokens for pool_tokens new pool tokens: the amounts are rounded up *)
Deposit(pool_tokens) ==
    LET r == curve_pool_tokens_to_trading_tokens(curve, param, pool_tokens, pool_mint_supply, token_a, token_b, Ceiling)
    IN /\ pc = "pool"
       /\ allows_deposits(curve)
       /\ IsSome(r)
       /\ token_a + Unwrap(r).token_a_amount <= MaxReserve
       /\ token_b + Unwrap(r).token_b_amount <= MaxReserve
       /\ pool_mint_supply + pool_tokens <= MaxSupply
       /\ token_a' = token_a + Unwrap(r).token_a_amount
       /\ token_b' = token_b + Unwrap(r).token_b_amount
       /\ pool_mint_supply' = pool_mint_supply + pool_tokens
       /\ last' = Before("deposit", pool_tokens)
       /\ UNCHANGED <<curve, param, pc, call, result>>

(* A withdrawal of both tokens for pool_tokens burned: the amounts are rounded down *)
Withdraw(pool_tokens) ==
    LET r == curve_pool_tokens_to_trading_tokens(curve, param, pool_tokens, pool_mint_supply, token_a, token_b, Floor)
    IN /\ pc = "pool"
       /\ pool_tokens < pool_mint_supply
       /\ IsSome(r)
       /\ Unwrap(r).token_a_amount <= token_a
       /\ Unwrap(r).token_b_amount <= token_b
       /\ token_a' = token_a - Unwrap(r).token_a_amount
       /\ token_b' = token_b - Unwrap(r).token_b_amount
       /\ pool_mint_supply' = pool_mint_supply - pool_tokens
       /\ last' = Before("withdraw", pool_tokens)
       /\ UNCHANGED <<curve, param, pc, call, result>>

Next ==
    \/ \E d \in TradeDirection, x \in 0..MaxAmount : Swap(d, x)
    \/ \E n \in 1..MaxSupply : Deposit(n)
    \/ \E n \in 1..MaxSupply : Withdraw(n)

Spec == Init /\ [][Next]_vars

---------------------------------------------------------------------------
(* Properties of the pool *)

ValueBefore == curve_normalized_value(curve, param, last.a, last.b)
ValueAfter == curve_normalized_value(curve, param, token_a, token_b)
ValueNotDecreased ==
    /\ IsSome(ValueBefore)
    /\ IsSome(ValueAfter)
    /\ PN_less_than_or_equal(Unwrap(ValueBefore), Unwrap(ValueAfter))

(* C1: a successful constant product swap, applied to the pool, never      *)
(* makes the product of the two reserves smaller; holding at every step,   *)
(* it holds over every sequence of swaps.                                  *)
C1_SwapKeepsProduct ==
    (curve = ConstantProduct /\ last.op = "swap")
        => token_a * token_b >= last.a * last.b

C1_Witness ==
    /\ curve = ConstantProduct
    /\ last.op = "swap"
    /\ token_a * token_b > last.a * last.b

(* C2 as stated: normalized_value never decreases over swaps, deposits and *)
(* withdrawals, for every curve.                                           *)
C2_ValueNeverDecreases ==
    last.op \in {"swap", "deposit", "withdraw"} => ValueNotDecreased

(* C2 amended: normalized_value never decreases over swaps and deposits,   *)
(* for every curve.                                                        *)
C2_ValueKeptBySwapAndDeposit ==
    last.op \in {"swap", "deposit"} => ValueNotDecreased

C2_Witness ==
    /\ curve = ConstantPrice
    /\ last.op = "deposit"
    /\ ValueNotDecreased
    /\ ValueBefore # ValueAfter

C3_Applies ==
    /\ curve = ConstantProduct
    /\ last.op \in {"deposit", "withdraw"}
    /\ (last.amount * last.a) \div last.supply >= 1
    /\ (last.amount * last.b) \div last.supply >= 1

(* C3: a constant product deposit (amounts rounded up) or withdrawal       *)
(* (amounts rounded down) of pool tokens worth at least one token on each  *)
(* side leaves the value per pool token no smaller:                        *)
(* a' * b' * S^2 >= a * b * S'^2.                                          *)
C3_PoolKeepsValuePerToken ==
    C3_Applies =>
        token_a * token_b * last.supply * last.supply
            >= last.a * last.b * pool_mint_supply * pool_mint_supply

C3_Witness ==
    /\ C3_Applies
    /\ last.op = "deposit"
    /\ token_a * token_b * last.supply * last.supply
           > last.a * last.b * pool_mint_supply * pool_mint_supply

---------------------------------------------------------------------------
(* fees.rs *)

(* calculate_fee without its early return for a zero numerator or amount *)
calculate_fee_always_charging(token_amount, fee_numerator, fee_denominator) ==
    LET mul == checked_mul(token_amount, fee_numerator)
        fee == checked_div(Unwrap(mul), fee_denominator)
    IN IF IsNone(mul) THEN None
       ELSE IF IsNone(fee) THEN None
       ELSE IF Unwrap(fee) = 0 THEN Some(1)
       ELSE fee

calculate_fee_no_minimum(token_amount, fee_numerator, fee_denominator) ==
    LET mul == checked_mul(token_amount, fee_numerator)
    IN IF fee_numerator = 0 \/ token_amount = 0 THEN Some(0)
       ELSE IF IsNone(mul) THEN None
       ELSE checked_div(Unwrap(mul), fee_denominator)

calculate_fee(token_amount, fee_numerator, fee_denominator) ==
    LET mul == checked_mul(token_amount, fee_numerator)
        fee == checked_div(Unwrap(mul), fee_denominator)
    IN IF fee_numerator = 0 \/ token_amount = 0 THEN Some(0)
       ELSE IF IsNone(mul) THEN None
       ELSE IF IsNone(fee) THEN None
       ELSE IF Unwrap(fee) = 0 THEN Some(1)
       ELSE fee

validate_fraction_allows_one(numerator, denominator) ==
    IF denominator = 0 /\ numerator = 0 THEN Ok
    ELSE IF numerator > denominator THEN InvalidFee
    ELSE Ok

validate_fraction(numerator, denominator) ==
    IF denominator = 0 /\ numerator = 0 THEN Ok
    ELSE IF numerator >= denominator THEN InvalidFee
    ELSE Ok

(* Fees::validate: the first invalid fraction ends it *)
Fees_validate(fees) ==
    IF validate_fraction(fees.trade_fee_numerator, fees.trade_fee_denominator) # Ok THEN InvalidFee
    ELSE IF validate_fraction(fees.owner_trade_fee_numerator, fees.owner_trade_fee_denominator) # Ok THEN InvalidFee
    ELSE IF validate_fraction(fees.owner_withdraw_fee_numerator, fees.owner_withdraw_fee_denominator) # Ok THEN InvalidFee
    ELSE IF validate_fraction(fees.host_fee_numerator, fees.host_fee_denominator) # Ok THEN InvalidFee
    ELSE Ok

(* The fee methods: each applies calculate_fee to its own fraction *)
Fees_owner_withdraw_fee(fees, pool_tokens) ==
    calculate_fee(pool_tokens, fees.owner_withdraw_fee_numerator, fees.owner_withdraw_fee_denominator)

Fees_trading_fee(fees, trading_tokens) ==
    calculate_fee(trading_tokens, fees.trade_fee_numerator, fees.trade_fee_denominator)

Fees_owner_trading_fee(fees, trading_tokens) ==
    calculate_fee(trading_tokens, fees.owner_trade_fee_numerator, fees.owner_trade_fee_denominator)

Fees_host_fee(fees, owner_fee) ==
    calculate_fee(owner_fee, fees.host_fee_numerator, fees.host_fee_denominator)

---------------------------------------------------------------------------
(***************************************************************************)
(* Calls of the library functions.  Each specification below starts with   *)
(* the arguments of one call, drawn from a set that holds small values,    *)
(* the values of the documented examples and the extremes of the width;    *)
(* its action makes the call and records what it returned.                 *)
(***************************************************************************)

InitCall(calls) ==
    /\ curve = ConstantProduct
    /\ param = 0
    /\ token_a = 1
    /\ token_b = 1
    /\ pool_mint_supply = 1
    /\ last = [op |-> "init", a |-> 1, b |-> 1, supply |-> 1, amount |-> 0]
    /\ pc = "idle"
    /\ call \in calls
    /\ result = None

Returns(fn, r) ==
    /\ pc = "idle"
    /\ call.fn = fn
    /\ pc' = "done"
    /\ result' = r
    /\ UNCHANGED <<curve, param, token_a, token_b, pool_mint_supply, last, call>>

Returned(fn) == pc = "done" /\ call.fn = fn

Amounts == (0..MaxArg) \cup {100, 1000, 50000, U128_MAX}
CurveParams == (0..MaxPrice) \cup {100, U64_MAX}

SwapCalls ==
    { c \in [fn : {"swap_without_fees"}, curve : CurveKinds, param : CurveParams,
             source_amount : Amounts, swap_source_amount : Amounts,
             swap_destination_amount : Amounts, trade_direction : TradeDirection] :
        c.curve = ConstantProduct => c.param = 0 }

CallSwapWithoutFees ==
    Returns("swap_without_fees",
            swap_without_fees(call.curve, call.param, call.source_amount, call.swap_source_amount, call.swap_destination_amount, call.trade_direction))

InitSwap == InitCall(SwapCalls)
NextSwap == CallSwapWithoutFees
SpecSwap == InitSwap /\ [][NextSwap]_vars

TokenAmounts == (0..MaxArg) \cup {10, 49, 50000, U128_MAX}

TokenCalls ==
    [fn : {"pool_tokens_to_trading_tokens"}, pool_tokens : TokenAmounts,
     pool_token_supply : TokenAmounts, swap_token_a_amount : TokenAmounts,
     swap_token_b_amount : TokenAmounts]

(* Both roundings of the constant product conversion, on the same arguments *)
CallPoolTokensToTradingTokens ==
    Returns("pool_tokens_to_trading_tokens",
            [floor |-> pool_tokens_to_trading_tokens(call.pool_tokens, call.pool_token_supply, call.swap_token_a_amount, call.swap_token_b_amount, Floor),
             ceiling |-> pool_tokens_to_trading_tokens(call.pool_tokens, call.pool_token_supply, call.swap_token_a_amount, call.swap_token_b_amount, Ceiling)])

InitTokens == InitCall(TokenCalls)
NextTokens == CallPoolTokensToTradingTokens
SpecTokens == InitTokens /\ [][NextTokens]_vars

FeeAmounts == (0..MaxArg) \cup {50, 1000, 50000, U128_MAX}
FeeParts == (0..MaxFee) \cup {100, U64_MAX}
Fraction == 0..MaxFee

FeeCalls ==
    [fn : {"calculate_fee"}, token_amount : FeeAmounts,
     fee_numerator : FeeParts, fee_denominator : FeeParts]

FeesValues ==
    [trade_fee_numerator : Fraction, trade_fee_denominator : Fraction,
     owner_trade_fee_numerator : Fraction, owner_trade_fee_denominator : Fraction,
     owner_withdraw_fee_numerator : Fraction, owner_withdraw_fee_denominator : Fraction,
     host_fee_numerator : Fraction, host_fee_denominator : Fraction]

ValidateCalls == [fn : {"Fees::validate"}, fees : FeesValues]

CallCalculateFee ==
    Returns("calculate_fee", calculate_fee(call.token_amount, call.fee_numerator, call.fee_denominator))

CallFeesValidate ==
    Returns("Fees::validate", Fees_validate(call.fees))

InitFees == InitCall(FeeCalls) \/ InitCall(ValidateCalls)
NextFees == CallCalculateFee \/ CallFeesValidate
SpecFees == InitFees /\ [][NextFees]_vars

---------------------------------------------------------------------------
(* calculator.rs test helper: a one-sided deposit against a swap of half   *)
(* the amount followed by a deposit of both sides                          *)

CONVERSION_BASIS_POINTS_GURANTEE == 50
Max(a, b) == IF a >= b THEN a ELSE b
MaxSource == 5
MaxSide == 5
MaxExtraSupply == 1

Panicked == [panicked |-> TRUE]

(* amount * basis_points / 10_000 *)
BasisPointsOf(amount, basis_points) == (amount \div 10000) * basis_points + ((amount % 10000) * basis_points) \div 10000

check_deposit_token_conversion(source_token_amount, swap_source_amount, swap_destination_amount, trade_direction, pool_supply, epsilon_in_basis_points) ==
    LET amount_to_swap == source_token_amount \div 2
        swapped == ConstantProductCurve_swap_without_fees(amount_to_swap, swap_source_amount, swap_destination_amount, trade_direction)
        results == Unwrap(swapped)
        opposite_direction == opposite(trade_direction)
        a0 == IF trade_direction = AtoB THEN swap_source_amount ELSE swap_destination_amount
        b0 == IF trade_direction = AtoB THEN swap_destination_amount ELSE swap_source_amount
        pool_tokens_from_one_side == ConstantProductCurve_deposit_single_token_type(source_token_amount, a0, b0, pool_supply, trade_direction)
        a1 == IF trade_direction = AtoB THEN swap_source_amount + results.source_amount_swapped
              ELSE swap_destination_amount - results.destination_amount_swapped
        b1 == IF trade_direction = AtoB THEN swap_destination_amount - results.destination_amount_swapped
              ELSE swap_source_amount + results.source_amount_swapped
        pool_tokens_from_source == ConstantProductCurve_deposit_single_token_type(source_token_amount - results.source_amount_swapped, a1, b1, pool_supply, trade_direction)
        pool_tokens_from_destination == ConstantProductCurve_deposit_single_token_type(results.destination_amount_swapped, a1, b1, pool_supply + Unwrap(pool_tokens_from_source), opposite_direction)
        pool_tokens_total_separate == Unwrap(pool_tokens_from_source) + Unwrap(pool_tokens_from_destination)
        epsilon == Max(1, BasisPointsOf(pool_tokens_total_separate, epsilon_in_basis_points))
        difference == IF Unwrap(pool_tokens_from_one_side) >= pool_tokens_total_separate
                      THEN Unwrap(pool_tokens_from_one_side) - pool_tokens_total_separate
                      ELSE pool_tokens_total_separate - Unwrap(pool_tokens_from_one_side)
    IN IF IsNone(swapped) THEN Panicked
       ELSE IF IsNone(pool_tokens_from_one_side) THEN Panicked
       ELSE IF IsNone(pool_tokens_from_source) THEN Panicked
       ELSE IF IsNone(pool_tokens_from_destination) THEN Panicked
       ELSE [panicked |-> FALSE,
             pool_tokens_from_one_side |-> Unwrap(pool_tokens_from_one_side),
             pool_tokens_total_separate |-> pool_tokens_total_separate,
             epsilon |-> epsilon,
             difference |-> difference,
             opposite_direction |-> opposite_direction]

DepositCalls ==
    [fn : {"check_deposit_token_conversion"},
     curve : {ConstantProduct},
     source_token_amount : 2..MaxSource,
     swap_source_amount : 1..MaxSide,
     swap_destination_amount : 1..MaxSide,
     trade_direction : TradeDirection,
     pool_supply : INITIAL_SWAP_POOL_AMOUNT..(INITIAL_SWAP_POOL_AMOUNT + MaxExtraSupply)]

CallCheckDepositTokenConversion ==
    /\ call.fn = "check_deposit_token_conversion"
    /\ Returns("check_deposit_token_conversion",
               check_deposit_token_conversion(call.source_token_amount, call.swap_source_amount, call.swap_destination_amount,
                                              call.trade_direction, call.pool_supply, CONVERSION_BASIS_POINTS_GURANTEE))

InitDeposit == InitCall(DepositCalls)
NextDeposit == CallCheckDepositTokenConversion
SpecDeposit == InitDeposit /\ [][NextDeposit]_vars

---------------------------------------------------------------------------
(* Properties of swap_without_fees *)

CeilDiv(n, m) == n \div m + (IF n % m > 0 THEN 1 ELSE 0)
Fits(a, b) == a = 0 \/ b <= U128_MAX \div a

(* The reserves the constant product formula works on: the offset curve adds its offset to token B *)
FormulaSource == IF call.curve = OffsetCurve /\ call.trade_direction = BtoA THEN call.swap_source_amount + call.param ELSE call.swap_source_amount
FormulaDestination == IF call.curve = OffsetCurve /\ call.trade_direction = AtoB THEN call.swap_destination_amount + call.param ELSE call.swap_destination_amount

(* The destination amount of the curve's formula is defined and is zero *)
C4_DestinationIsZero ==
    IF call.curve = ConstantPrice
    THEN IF call.trade_direction = AtoB
         THEN call.param > 0 /\ call.source_amount \div call.param = 0
         ELSE call.source_amount = 0 \/ call.param = 0
    ELSE /\ call.swap_source_amount <= U128_MAX - call.param
         /\ call.swap_destination_amount <= U128_MAX - call.param
         /\ Fits(FormulaSource, FormulaDestination)
         /\ call.source_amount <= U128_MAX - FormulaSource
         /\ FormulaSource + call.source_amount > 0
         /\ FormulaDestination = CeilDiv(FormulaSource * FormulaDestination, FormulaSource + call.source_amount)

(* C4: for every curve, a result of swap_without_fees has a destination    *)
(* amount of at least 1, and a swap whose destination amount comes out as  *)
(* zero returns None.                                                      *)
C4_SwapNeverReturnsZero ==
    Returned("swap_without_fees") =>
        /\ IsSome(result) => Unwrap(result).destination_amount_swapped >= 1
        /\ C4_DestinationIsZero => IsNone(result)

C4_Witness ==
    /\ Returned("swap_without_fees")
    /\ call.curve = OffsetCurve
    /\ call.source_amount > 0
    /\ call.swap_source_amount > 0
    /\ call.swap_destination_amount > 0
    /\ C4_DestinationIsZero
    /\ IsNone(result)

(* C5: a result of the constant product swap_without_fees has              *)
(* destination_amount_swapped = reserve_out - ceiling(reserve_in *         *)
(* reserve_out / (reserve_in + source_amount)); reserves (1000, 1000) and  *)
(* source_amount 100 give 90.                                              *)
C5_SwapIsCeilingDivision ==
    (Returned("swap_without_fees") /\ call.curve = ConstantProduct) =>
        /\ IsSome(result) =>
              Unwrap(result).destination_amount_swapped
                  = call.swap_destination_amount
                      - CeilDiv(call.swap_source_amount * call.swap_destination_amount,
                                call.swap_source_amount + call.source_amount)
        /\ (call.source_amount = 100 /\ call.swap_source_amount = 1000 /\ call.swap_destination_amount = 1000) =>
              (IsSome(result) /\ Unwrap(result).destination_amount_swapped = 90)

C5_Witness ==
    /\ Returned("swap_without_fees")
    /\ call.curve = ConstantProduct
    /\ call.source_amount = 100
    /\ call.swap_source_amount = 1000
    /\ call.swap_destination_amount = 1000
    /\ IsSome(result)
    /\ Unwrap(result).destination_amount_swapped = 90

(* C10: a result of the constant price swap_without_fees is, for AtoB,     *)
(* destination = floor(source_amount / p) and source = destination * p,    *)
(* and for BtoA source = source_amount and destination = source_amount * p,*)
(* whatever the reserves passed in; price 1, reserves (0, 0) and source    *)
(* 100 give (100, 100) in both directions.                                 *)
C10_ConstantPriceSwap ==
    (Returned("swap_without_fees") /\ call.curve = ConstantPrice) =>
        /\ (IsSome(result) /\ call.trade_direction = AtoB) =>
              /\ Unwrap(result).destination_amount_swapped = call.source_amount \div call.param
              /\ Unwrap(result).source_amount_swapped = Unwrap(result).destination_amount_swapped * call.param
              /\ Unwrap(result).source_amount_swapped = call.source_amount - (call.source_amount % call.param)
        /\ (IsSome(result) /\ call.trade_direction = BtoA) =>
              /\ Unwrap(result).source_amount_swapped = call.source_amount
              /\ Unwrap(result).destination_amount_swapped = call.source_amount * call.param
        /\ (call.param = 1 /\ call.source_amount = 100 /\ call.swap_source_amount = 0 /\ call.swap_destination_amount = 0) =>
              result = Some([source_amount_swapped |-> 100, destination_amount_swapped |-> 100])

C10_Witness ==
    /\ Returned("swap_without_fees")
    /\ call.curve = ConstantPrice
    /\ call.trade_direction = AtoB
    /\ call.swap_source_amount # call.swap_destination_amount
    /\ IsSome(result)
    /\ call.source_amount % call.param > 0
    /\ Unwrap(result).source_amount_swapped < call.source_amount

---------------------------------------------------------------------------
(* Properties of pool_tokens_to_trading_tokens *)

C6_Side(fl, ce, reserve) ==
    /\ ce >= fl
    /\ ce <= fl + 1
    /\ ce = fl + 1 <=> ((call.pool_tokens * reserve) % call.pool_token_supply # 0 /\ fl # 0)
    /\ fl = 0 => ce = 0

(* C6: on the same arguments each side of the Ceiling result is the Floor  *)
(* result or one more; it is one more exactly when pool_tokens * reserve   *)
(* leaves a remainder modulo the supply and the Floor amount is not zero;  *)
(* a Floor amount of zero stays zero.                                      *)
C6_CeilingVersusFloor ==
    Returned("pool_tokens_to_trading_tokens") =>
        /\ IsSome(result.floor) <=> IsSome(result.ceiling)
        /\ IsSome(result.floor) =>
              /\ C6_Side(Unwrap(result.floor).token_a_amount, Unwrap(result.ceiling).token_a_amount, call.swap_token_a_amount)
              /\ C6_Side(Unwrap(result.floor).token_b_amount, Unwrap(result.ceiling).token_b_amount, call.swap_token_b_amount)

C6_Witness ==
    /\ Returned("pool_tokens_to_trading_tokens")
    /\ IsSome(result.floor)
    /\ Unwrap(result.ceiling).token_a_amount = Unwrap(result.floor).token_a_amount + 1
    /\ (call.pool_tokens * call.swap_token_b_amount) % call.pool_token_supply # 0
    /\ Unwrap(result.floor).token_b_amount = 0
    /\ Unwrap(result.ceiling).token_b_amount = 0

---------------------------------------------------------------------------
(* Properties of the fees *)

(* C7: calculate_fee returns 0 for a zero numerator or a zero amount, and  *)
(* otherwise, when the product fits and the denominator is not zero,       *)
(* max(1, floor(amount * numerator / denominator)), which is never 0;      *)
(* 1/100 of 50 is 1.                                                       *)
C7_FeeFloor ==
    Returned("calculate_fee") =>
        /\ (call.fee_numerator = 0 \/ call.token_amount = 0) => result = Some(0)
        /\ (call.fee_numerator > 0 /\ call.token_amount > 0 /\ call.fee_denominator > 0
              /\ Fits(call.fee_numerator, call.token_amount)) =>
              /\ result = Some(Max(1, (call.token_amount * call.fee_numerator) \div call.fee_denominator))
              /\ Unwrap(result) >= 1
        /\ (call.token_amount = 50 /\ call.fee_numerator = 1 /\ call.fee_denominator = 100) => result = Some(1)

C7_Witness ==
    /\ Returned("calculate_fee")
    /\ call.token_amount = 50
    /\ call.fee_numerator = 1
    /\ call.fee_denominator = 100
    /\ result = Some(1)

C8_FractionOk(numerator, denominator) ==
    (numerator = 0 /\ denominator = 0) \/ numerator < denominator

(* C8: Fees::validate returns Ok exactly when each of the four fractions   *)
(* is (0, 0) or has numerator < denominator, and InvalidFee otherwise.     *)
C8_FeesValidate ==
    Returned("Fees::validate") =>
        /\ result = Ok <=>
              /\ C8_FractionOk(call.fees.trade_fee_numerator, call.fees.trade_fee_denominator)
              /\ C8_FractionOk(call.fees.owner_trade_fee_numerator, call.fees.owner_trade_fee_denominator)
              /\ C8_FractionOk(call.fees.owner_withdraw_fee_numerator, call.fees.owner_withdraw_fee_denominator)
              /\ C8_FractionOk(call.fees.host_fee_numerator, call.fees.host_fee_denominator)
        /\ result # Ok => result = InvalidFee

C8_Witness ==
    /\ Returned("Fees::validate")
    /\ call.fees.trade_fee_numerator = 0 /\ call.fees.trade_fee_denominator = 0
    /\ call.fees.owner_trade_fee_numerator = 1 /\ call.fees.owner_trade_fee_denominator = 2
    /\ call.fees.owner_withdraw_fee_numerator = 0 /\ call.fees.owner_withdraw_fee_denominator = 0
    /\ call.fees.host_fee_numerator = 1 /\ call.fees.host_fee_denominator = 1
    /\ result = InvalidFee

---------------------------------------------------------------------------
(* Properties of the single-sided deposit *)

(* C9: for the constant product curve, source amount >= 2, reserves >= 1   *)
(* and a supply of at least INITIAL_SWAP_POOL_AMOUNT, the pool tokens of a *)
(* single-sided deposit and the total of the two-step path (swap half,     *)
(* deposit the rest of the source, deposit the swap output) differ by at   *)
(* most max(1, 50 basis points of the two-step total).                     *)
C9_DepositMatchesSwapThenDeposit ==
    (/\ Returned("check_deposit_token_conversion")
     /\ call.curve = ConstantProduct
     /\ call.source_token_amount >= 2
     /\ call.swap_source_amount >= 1
     /\ call.swap_destination_amount >= 1
     /\ call.pool_supply >= INITIAL_SWAP_POOL_AMOUNT
     /\ ~result.panicked) =>
        result.difference <= result.epsilon

---------------------------------------------------------------------------
(* Failures of the constant price swap *)

(* C11: the constant price swap_without_fees returns None for AtoB with    *)
(* source_amount < token_b_price, for BtoA with source_amount = 0, and in  *)
(* both directions for token_b_price = 0; for AtoB with source_amount =    *)
(* token_b_price (not zero) it returns (token_b_price, 1).                 *)
C11_ConstantPriceSwapFailures ==
    (Returned("swap_without_fees") /\ call.curve = ConstantPrice) =>
        /\ (call.trade_direction = AtoB /\ call.source_amount < call.param) => IsNone(result)
        /\ (call.trade_direction = BtoA /\ call.source_amount = 0) => IsNone(result)
        /\ call.param = 0 => IsNone(result)
        /\ (call.trade_direction = AtoB /\ call.source_amount = call.param /\ call.param > 0) =>
              result = Some([source_amount_swapped |-> call.param, destination_amount_swapped |-> 1])

C11_Witness ==
    /\ Returned("swap_without_fees")
    /\ call.curve = ConstantPrice
    /\ call.trade_direction = AtoB
    /\ call.source_amount > 0
    /\ call.source_amount < call.param
    /\ IsNone(result)

---------------------------------------------------------------------------
(* Calls of normalized_value *)

MaxSqrtArg == 200000

(* The arguments whose square root the scaled PreciseNumber can hold *)
SqrtArgFits(c) ==
    \/ c.curve = ConstantPrice
    \/ c.swap_token_b_amount > U128_MAX - c.param
    \/ c.swap_token_a_amount = 0
    \/ c.swap_token_b_amount + c.param <= MaxSqrtArg \div c.swap_token_a_amount

ValueCalls ==
    { c \in [fn : {"normalized_value"}, curve : CurveKinds, param : CurveParams,
             swap_token_a_amount : Amounts, swap_token_b_amount : Amounts] :
        (c.curve = ConstantProduct => c.param = 0) /\ SqrtArgFits(c) }

CallNormalizedValue ==
    Returns("normalized_value",
            curve_normalized_value(call.curve, call.param, call.swap_token_a_amount, call.swap_token_b_amount))

InitValue == InitCall(ValueCalls)
NextValue == CallNormalizedValue
SpecValue == InitValue /\ [][NextValue]_vars

(* floor((a + b) / 2) without forming a + b *)
HalfSum(a, b) == (a \div 2) + (b \div 2) + ((a % 2) + (b % 2)) \div 2

(* C12: the constant price normalized_value returns (reserve_a +           *)
(* reserve_b * p) / 2 whenever reserve_b * p fits in u128, also when the   *)
(* sum reserve_a + reserve_b * p does not fit: the halving branch is taken *)
(* and a value is returned instead of a failure.                           *)
C12_ConstantPriceValueAvoidsOverflow ==
    (/\ Returned("normalized_value")
     /\ call.curve = ConstantPrice
     /\ Fits(call.swap_token_b_amount, call.param)) =>
        /\ IsSome(result)
        /\ Unwrap(result) = PN(HalfSum(call.swap_token_a_amount, call.swap_token_b_amount * call.param), 0)

---------------------------------------------------------------------------
(* Calls of the offset curve *)

OffsetFns == {"Offset::swap_without_fees", "Offset::pool_tokens_to_trading_tokens", "Offset::deposit_single_token_type", "Offset::withdraw_single_token_type_exact_out", "Offset::normalized_value"}

OffsetCalls ==
    [fn : OffsetFns, param : 0..MaxOffset, amount : 0..MaxArg, pool_supply : 0..MaxArg,
     swap_token_a_amount : 0..MaxArg, swap_token_b_amount : 0..MaxArg,
     trade_direction : TradeDirection, round_direction : RoundDirection]

(* The reserve the trade takes from and the reserve it pays out of *)
SourceReserve(a, b, trade_direction) == IF trade_direction = AtoB THEN a ELSE b
DestinationReserve(a, b, trade_direction) == IF trade_direction = AtoB THEN b ELSE a

CallOffsetSwap ==
    Returns("Offset::swap_without_fees",
            Offset_swap_without_fees(call.param, call.amount,
                                     SourceReserve(call.swap_token_a_amount, call.swap_token_b_amount, call.trade_direction),
                                     DestinationReserve(call.swap_token_a_amount, call.swap_token_b_amount, call.trade_direction),
                                     call.trade_direction))

CallOffsetPoolTokens ==
    Returns("Offset::pool_tokens_to_trading_tokens",
            Offset_pool_tokens_to_trading_tokens(call.param, call.amount, call.pool_supply, call.swap_token_a_amount, call.swap_token_b_amount, call.round_direction))

CallOffsetDeposit ==
    Returns("Offset::deposit_single_token_type",
            Offset_deposit_single_token_type(call.param, call.amount, call.swap_token_a_amount, call.swap_token_b_amount, call.pool_supply, call.trade_direction))

CallOffsetWithdraw ==
    Returns("Offset::withdraw_single_token_type_exact_out",
            Offset_withdraw_single_token_type_exact_out(call.param, call.amount, call.swap_token_a_amount, call.swap_token_b_amount, call.pool_supply, call.trade_direction))

CallOffsetValue ==
    Returns("Offset::normalized_value",
            Offset_normalized_value(call.param, call.swap_token_a_amount, call.swap_token_b_amount))

InitOffset == InitCall(OffsetCalls)
NextOffset == CallOffsetSwap \/ CallOffsetPoolTokens \/ CallOffsetDeposit \/ CallOffsetWithdraw \/ CallOffsetValue
SpecOffset == InitOffset /\ [][NextOffset]_vars

(* What the constant product routine returns for reserves (reserve_a, reserve_b + token_b_offset) *)
C13_OnOffsetReserves ==
    LET a == call.swap_token_a_amount
        b == call.swap_token_b_amount + call.param
    IN CASE call.fn = "Offset::swap_without_fees" ->
              swap(call.amount, SourceReserve(a, b, call.trade_direction), DestinationReserve(a, b, call.trade_direction))
         [] call.fn = "Offset::pool_tokens_to_trading_tokens" ->
              pool_tokens_to_trading_tokens(call.amount, call.pool_supply, a, b, call.round_direction)
         [] call.fn = "Offset::deposit_single_token_type" ->
              ConstantProductCurve_deposit_single_token_type(call.amount, a, b, call.pool_supply, call.trade_direction)
         [] call.fn = "Offset::withdraw_single_token_type_exact_out" ->
              ConstantProductCurve_withdraw_single_token_type_exact_out(call.amount, a, b, call.pool_supply, call.trade_direction)
         [] call.fn = "Offset::normalized_value" ->
              normalized_value(a, b)

(* C13: every operation of the offset curve (swap_without_fees,            *)
(* pool_tokens_to_trading_tokens, deposit_single_token_type,               *)
(* withdraw_single_token_type_exact_out, normalized_value) returns exactly *)
(* what the constant product routine returns for reserves (reserve_a,      *)
(* reserve_b + token_b_offset).                                            *)
C13_OffsetComputesOnShiftedReserve ==
    (pc = "done" /\ call.fn \in OffsetFns) => result = C13_OnOffsetReserves

---------------------------------------------------------------------------
(* Properties of the curve's configuration *)

(* C14: allows_deposits is false for the offset curve, whatever its offset *)
(* and reserves, and true for the constant product and constant price      *)
(* curves; the answer never changes during the life of a pool.             *)
C14_AllowsDeposits ==
    /\ [](allows_deposits(curve) <=> curve \in {ConstantProduct, ConstantPrice})
    /\ [](curve = OffsetCurve => ~allows_deposits(curve))
    /\ [][allows_deposits(curve') <=> allows_deposits(curve)]_vars

C14_Witness ==
    /\ curve = OffsetCurve
    /\ param = MaxOffset
    /\ last.op = "swap"
    /\ ~allows_deposits(curve)

---------------------------------------------------------------------------
(* Calls of validate and validate_supply *)

SupplyAmounts == (0..MaxArg) \cup {U64_MAX}

ValidateCurveCalls ==
    { c \in [fn : {"validate"}, curve : CurveKinds, param : CurveParams] :
        c.curve = ConstantProduct => c.param = 0 }

ValidateSupplyCalls ==
    { c \in [fn : {"validate_supply"}, curve : CurveKinds, param : CurveParams,
             token_a_amount : SupplyAmounts, token_b_amount : SupplyAmounts] :
        c.curve = ConstantProduct => c.param = 0 }

CallValidate == Returns("validate", validate(call.curve, call.param))

CallValidateSupply == Returns("validate_supply", validate_supply(call.curve, call.token_a_amount, call.token_b_amount))

InitValidate == InitCall(ValidateCurveCalls) \/ InitCall(ValidateSupplyCalls)
NextValidate == CallValidate \/ CallValidateSupply
SpecValidate == InitValidate /\ [][NextValidate]_vars

(* C15: validate of the constant price curve returns InvalidCurve exactly  *)
(* when token_b_price = 0, validate of the offset curve exactly when       *)
(* token_b_offset = 0, and validate of the constant product curve always   *)
(* returns Ok.                                                             *)
C15_ValidateCurve ==
    Returned("validate") =>
        /\ result \in {Ok, InvalidCurve}
        /\ call.curve = ConstantPrice => (result = InvalidCurve <=> call.param = 0)
        /\ call.curve = OffsetCurve => (result = InvalidCurve <=> call.param = 0)
        /\ call.curve = ConstantProduct => result = Ok

C15_Witness ==
    /\ Returned("validate")
    /\ call.curve = ConstantPrice
    /\ call.param = 0
    /\ result = InvalidCurve

(* C16: validate_supply of the constant product curve (the default)        *)
(* returns EmptySupply exactly when token_a_amount = 0 or token_b_amount = *)
(* 0; those of the constant price and offset curves return EmptySupply     *)
(* exactly when token_a_amount = 0 and accept token_b_amount = 0.          *)
C16_ValidateSupply ==
    Returned("validate_supply") =>
        /\ result \in {Ok, EmptySupply}
        /\ call.curve = ConstantProduct =>
              (result = EmptySupply <=> (call.token_a_amount = 0 \/ call.token_b_amount = 0))
        /\ call.curve \in {ConstantPrice, OffsetCurve} =>
              (result = EmptySupply <=> call.token_a_amount = 0)

C16_Witness ==
    /\ Returned("validate_supply")
    /\ call.curve = ConstantPrice
    /\ call.token_a_amount > 0
    /\ call.token_b_amount = 0
    /\ result = Ok

---------------------------------------------------------------------------
(* Calls of the constant price single-sided conversions *)

PoolSupplies == (0..MaxArg) \cup {U128_MAX \div 2 + 1, U128_MAX}

(* The value given, in token A units *)
GivenValue(c) == IF c.trade_direction = AtoB THEN c.source_amount ELSE c.source_amount * c.param

(* The calls whose wide product the modelled U256 holds, as the program's U256 does *)
WideProductFits(c) == c.pool_supply = 0 \/ GivenValue(c) <= U256_MAX \div c.pool_supply

PriceTokenFns == {"ConstantPriceCurve::deposit_single_token_type", "ConstantPriceCurve::withdraw_single_token_type_exact_out"}

PriceTokenCalls ==
    { c \in [fn : PriceTokenFns, param : 0..MaxPrice, source_amount : 0..MaxArg,
             swap_token_a_amount : 0..MaxArg, swap_token_b_amount : 0..MaxArg,
             pool_supply : PoolSupplies, trade_direction : TradeDirection] :
        WideProductFits(c) }

CallPriceDeposit ==
    Returns("ConstantPriceCurve::deposit_single_token_type",
            ConstantPriceCurve_deposit_single_token_type(call.param, call.source_amount, call.swap_token_a_amount, call.swap_token_b_amount, call.pool_supply, call.trade_direction))

CallPriceWithdraw ==
    Returns("ConstantPriceCurve::withdraw_single_token_type_exact_out",
            ConstantPriceCurve_withdraw_single_token_type_exact_out(call.param, call.source_amount, call.swap_token_a_amount, call.swap_token_b_amount, call.pool_supply, call.trade_direction))

InitPriceTokens == InitCall(PriceTokenCalls)
NextPriceTokens == CallPriceDeposit \/ CallPriceWithdraw
SpecPriceTokens == InitPriceTokens /\ [][NextPriceTokens]_vars

TotalValue == call.swap_token_b_amount * call.param + call.swap_token_a_amount

(* pool_supply * given_value / total_value, rounded down, is defined and exceeds u128 *)
C17_QuotientLeavesU128 ==
    /\ TotalValue > 0
    /\ (call.pool_supply * GivenValue(call)) \div TotalValue > U128_MAX

(* C17: no operation panics or returns a wrapped or truncated value: each  *)
(* returns the exact rounded result or None.  For the constant price       *)
(* conversions of one token type: the call returns, with None when         *)
(* pool_supply * given_value / total_value does not fit in u128 and with a *)
(* value of at most u128::MAX otherwise.                                   *)
C17_ConversionsAreTotal ==
    (pc = "done" /\ call.fn \in PriceTokenFns) =>
        /\ ~result.panicked
        /\ C17_QuotientLeavesU128 => IsNone(result.value)
        /\ IsSome(result.value) => Unwrap(result.value) <= U128_MAX

---------------------------------------------------------------------------
(* Calls of the constant product single-sided withdrawal *)

WithdrawSupplies == (0..MaxArg) \cup {1000}

WithdrawCalls ==
    [fn : {"ConstantProductCurve::withdraw_single_token_type_exact_out"},
     source_amount : 0..MaxArg, swap_token_a_amount : 0..MaxArg, swap_token_b_amount : 0..MaxArg,
     pool_supply : WithdrawSupplies, trade_direction : TradeDirection]

CallWithdrawSingle ==
    Returns("ConstantProductCurve::withdraw_single_token_type_exact_out",
            ConstantProductCurve_withdraw_single_token_type_exact_out(call.source_amount, call.swap_token_a_amount, call.swap_token_b_amount, call.pool_supply, call.trade_direction))

InitWithdraw == InitCall(WithdrawCalls)
NextWithdraw == CallWithdrawSingle
SpecWithdraw == InitWithdraw /\ [][NextWithdraw]_vars

(* C18: the constant product withdraw_single_token_type_exact_out returns  *)
(* None whenever source_amount is at least the reserve of the withdrawn    *)
(* side (token A for AtoB, token B for BtoA), equality included.           *)
C18_WithdrawOfWholeReserveFails ==
    (/\ Returned("ConstantProductCurve::withdraw_single_token_type_exact_out")
     /\ call.source_amount >= SourceReserve(call.swap_token_a_amount, call.swap_token_b_amount, call.trade_direction)) =>
        IsNone(result)

---------------------------------------------------------------------------
(* Calls of the stable curve's compute_d *)

MaxLeverage == 4
Leverages == (0..MaxLeverage) \cup {Unwrap(compute_a(100))}
StableAmounts == (0..MaxArg) \cup {1000}

ComputeDCalls == [fn : {"compute_d"}, leverage : Leverages, amount_a : StableAmounts, amount_b : StableAmounts]

CallComputeD == Returns("compute_d", compute_d_run(call.leverage, call.amount_a, call.amount_b))

InitStable == InitCall(ComputeDCalls)
NextStable == CallComputeD
SpecStable == InitStable /\ [][NextStable]_vars

---------------------------------------------------------------------------
(* C20: TradeDirection::opposite is an involution: the opposite of AtoB is *)
(* BtoA, the opposite of BtoA is AtoB, and the opposite of the opposite of *)
(* a direction is that direction.                                          *)
C20_OppositeIsAnInvolution ==
    (Returned("check_deposit_token_conversion") /\ ~result.panicked) =>
        /\ call.trade_direction = AtoB => result.opposite_direction = BtoA
        /\ call.trade_direction = BtoA => result.opposite_direction = AtoB
        /\ opposite(result.opposite_direction) = call.trade_direction
        /\ opposite(opposite(call.trade_direction)) = call.trade_direction

C20_Witness ==
    /\ Returned("check_deposit_token_conversion")
    /\ ~result.panicked
    /\ call.trade_direction = BtoA
    /\ result.opposite_direction = AtoB
    /\ opposite(result.opposite_direction) = BtoA

---------------------------------------------------------------------------
(* C21: new_pool_supply returns INITIAL_SWAP_POOL_AMOUNT = 1_000_000_000   *)
(* for the constant product, constant price and offset curves alike,       *)
(* whatever the reserves are and whatever operations came before.          *)
C21_NewPoolSupplyIsFixed ==
    /\ new_pool_supply(curve) = INITIAL_SWAP_POOL_AMOUNT
    /\ new_pool_supply(curve) = 1000000000
    /\ \A c \in CurveKinds : new_pool_supply(c) = new_pool_supply(curve)

C21_Witness ==
    /\ curve = OffsetCurve
    /\ last.op = "swap"
    /\ token_a # last.a
    /\ new_pool_supply(curve) = 1000000000

---------------------------------------------------------------------------
(* C22: at the constant price, deposit_single_token_type returns the floor *)
(* and withdraw_single_token_type_exact_out the ceiling of                 *)
(* pool_supply * v / (reserve_a + reserve_b * p), v being the value given; *)
(* so on the same inputs the withdrawal result is the deposit result or    *)
(* one more, and both fail when the total value is zero.                   *)
C22_FloorAndCeilingOfOneQuotient ==
    (pc = "done" /\ call.fn \in PriceTokenFns) =>
        LET product == call.pool_supply * GivenValue(call)
            deposited == ConstantPriceCurve_deposit_single_token_type(call.param, call.source_amount, call.swap_token_a_amount, call.swap_token_b_amount, call.pool_supply, call.trade_direction)
            withdrawn == ConstantPriceCurve_withdraw_single_token_type_exact_out(call.param, call.source_amount, call.swap_token_a_amount, call.swap_token_b_amount, call.pool_supply, call.trade_direction)
        IN /\ result = IF call.fn = "ConstantPriceCurve::deposit_single_token_type" THEN deposited ELSE withdrawn
           /\ TotalValue = 0 => (deposited = Returned_value(None) /\ withdrawn = Returned_value(None))
           /\ TotalValue > 0 =>
                 /\ deposited = Returned_value(Some(product \div TotalValue))
                 /\ withdrawn = Returned_value(Some(CeilDiv(product, TotalValue)))
                 /\ Unwrap(withdrawn.value) >= Unwrap(deposited.value)
                 /\ Unwrap(withdrawn.value) <= Unwrap(deposited.value) + 1

---------------------------------------------------------------------------
(* C23: a successful offset curve swap, in either direction, applied to    *)
(* the real reserves of the pool, never makes                              *)
(* reserve_a * (reserve_b + token_b_offset) smaller; holding at every      *)
(* step, it holds over every sequence of swaps.                            *)
C23_OffsetSwapKeepsShiftedProduct ==
    (curve = OffsetCurve /\ last.op = "swap") =>
        token_a * (token_b + param) >= last.a * (last.b + param)

C23_Witness ==
    /\ curve = OffsetCurve
    /\ last.op = "swap"
    /\ token_b < last.b
    /\ token_a * (token_b + param) > last.a * (last.b + param)

---------------------------------------------------------------------------
(* The Newton estimates of the call, computed one step at a time *)

(* The estimate that follows d *)
C24_Step(d) ==
    LET sq == U256_checked_mul(d, d)
        p1 == U256_checked_div(Unwrap(sq), 2 * call.amount_a + 1)
        cu == U256_checked_mul(Unwrap(p1), d)
        d_product == U256_checked_div(Unwrap(cu), 2 * call.amount_b + 1)
    IN IF IsNone(sq) THEN None
       ELSE IF IsNone(cu) THEN None
       ELSE calculate_step(d, call.leverage, call.amount_a + call.amount_b, Unwrap(d_product))

(* The estimate after k steps, None once a step has failed *)
RECURSIVE C24_Estimate(_)
C24_Estimate(k) ==
    IF k = 0 THEN Some(call.amount_a + call.amount_b)
    ELSE LET previous == C24_Estimate(k - 1)
         IN IF IsNone(previous) THEN None ELSE C24_Step(Unwrap(previous))

(* Step k gave an estimate equal to the one before it *)
C24_FixedAt(k) == IsSome(C24_Estimate(k)) /\ C24_Estimate(k) = C24_Estimate(k - 1)

C24_AsU128(estimate) == IF Unwrap(estimate) > U128_MAX THEN None ELSE estimate

(* C24: compute_d terminates: it takes at most 32 Newton steps, leaves the *)
(* loop at the first step whose estimate equals the one before, and after  *)
(* 32 steps with no two equal consecutive estimates it still returns the   *)
(* last estimate when that fits in u128.                                   *)
C24_ComputeDTerminates ==
    (Returned("compute_d") /\ call.amount_a + call.amount_b > 0) =>
        /\ result.iterations <= ITERATIONS
        /\ result.converged =>
              /\ result.iterations >= 1
              /\ C24_FixedAt(result.iterations)
              /\ \A k \in 1..(result.iterations - 1) : ~C24_FixedAt(k)
              /\ result.d = C24_AsU128(C24_Estimate(result.iterations))
        /\ (\E k \in 1..ITERATIONS : C24_FixedAt(k)) => result.converged
        /\ (/\ IsSome(C24_Estimate(ITERATIONS))
            /\ \A k \in 1..ITERATIONS : ~C24_FixedAt(k)) =>
              /\ ~result.converged
              /\ result.iterations = ITERATIONS
              /\ result.d = C24_AsU128(C24_Estimate(ITERATIONS))
              /\ IsSome(result.d)

(* The cap is reached without a fixed point and the last estimate is returned *)
C24_Witness ==
    /\ Returned("compute_d")
    /\ ~result.converged
    /\ result.iterations = ITERATIONS
    /\ IsSome(result.d)
    /\ \A k \in 1..ITERATIONS : ~C24_FixedAt(k)
    /\ result.d = C24_Estimate(ITERATIONS)

---------------------------------------------------------------------------
(* C25: when amount_a + amount_b = 0, compute_d returns Some(0) without    *)
(* taking a Newton step, for every leverage, leverage 0 included.          *)
C25_EmptyReservesGiveZero ==
    (Returned("compute_d") /\ call.amount_a + call.amount_b = 0) =>
        /\ result.d = Some(0)
        /\ result.iterations = 0
        /\ compute_d(call.leverage, call.amount_a, call.amount_b) = Some(0)

C25_Witness ==
    /\ Returned("compute_d")
    /\ call.leverage = 0
    /\ call.amount_a = 0
    /\ call.amount_b = 0
    /\ result.d = Some(0)
    /\ result.iterations = 0

---------------------------------------------------------------------------
(* The documented domain of the constant product swap *)
C26_InDomain ==
    /\ call.curve = ConstantProduct
    /\ call.source_amount >= 1
    /\ call.source_amount <= U64_MAX
    /\ call.swap_source_amount >= 1
    /\ call.swap_destination_amount >= 1
    /\ Fits(call.swap_source_amount, call.swap_destination_amount)

(* swap_destination_amount - ceiling(invariant / (swap_source_amount + source_amount)) *)
C26_FormulaDestination ==
    call.swap_destination_amount
        - CeilDiv(call.swap_source_amount * call.swap_destination_amount, call.swap_source_amount + call.source_amount)

(* C26: on 1 <= source_amount <= u64::MAX and                              *)
(* 1 <= swap_source_amount * swap_destination_amount <= u128::MAX no step  *)
(* of the constant product swap overflows: it returns None only when the   *)
(* destination amount of the exact ceiling division formula is zero, and a *)
(* result otherwise.                                                       *)
C26_SwapWorksOnItsDomain ==
    (Returned("swap_without_fees") /\ C26_InDomain) =>
        /\ IsSome(checked_add(call.swap_source_amount, call.source_amount))
        /\ IsNone(result) <=> C26_FormulaDestination = 0

---------------------------------------------------------------------------
---------------------------------------------------------------------------
(* C28: a result of swap_without_fees of the constant price and offset     *)
(* curves has destination_amount_swapped of at most the real destination   *)
(* reserve passed in as swap_destination_amount, offset not counted.       *)
C28_SwapPaysWithinTheReserve ==
    (Returned("swap_without_fees") /\ call.curve \in {ConstantPrice, OffsetCurve} /\ IsSome(result)) =>
        Unwrap(result).destination_amount_swapped <= call.swap_destination_amount

---------------------------------------------------------------------------
(* Calls of the fee methods *)

FeeMethods == {"Fees::owner_withdraw_fee", "Fees::trading_fee", "Fees::owner_trading_fee", "Fees::host_fee"}

(* Fees whose four fractions differ: a zero or a distinct denominator each *)
FeeMethodCalls ==
    [fn : FeeMethods, token_amount : FeeAmounts,
     fees : [trade_fee_numerator : Fraction, trade_fee_denominator : {0, MaxFee},
             owner_trade_fee_numerator : Fraction, owner_trade_fee_denominator : {0, MaxFee + 1},
             owner_withdraw_fee_numerator : Fraction, owner_withdraw_fee_denominator : {0, 100},
             host_fee_numerator : Fraction, host_fee_denominator : {0, U64_MAX}]]

CallOwnerWithdrawFee == Returns("Fees::owner_withdraw_fee", Fees_owner_withdraw_fee(call.fees, call.token_amount))
CallTradingFee == Returns("Fees::trading_fee", Fees_trading_fee(call.fees, call.token_amount))
CallOwnerTradingFee == Returns("Fees::owner_trading_fee", Fees_owner_trading_fee(call.fees, call.token_amount))
CallHostFee == Returns("Fees::host_fee", Fees_host_fee(call.fees, call.token_amount))

NextFeeMethods == CallOwnerWithdrawFee \/ CallTradingFee \/ CallOwnerTradingFee \/ CallHostFee
SpecFeeMethods == InitCall(FeeMethodCalls) /\ [][NextFeeMethods]_vars

(* The fraction the called method reads *)
C29_Numerator ==
    CASE call.fn = "Fees::owner_withdraw_fee" -> call.fees.owner_withdraw_fee_numerator
      [] call.fn = "Fees::trading_fee" -> call.fees.trade_fee_numerator
      [] call.fn = "Fees::owner_trading_fee" -> call.fees.owner_trade_fee_numerator
      [] call.fn = "Fees::host_fee" -> call.fees.host_fee_numerator

C29_Denominator ==
    CASE call.fn = "Fees::owner_withdraw_fee" -> call.fees.owner_withdraw_fee_denominator
      [] call.fn = "Fees::trading_fee" -> call.fees.trade_fee_denominator
      [] call.fn = "Fees::owner_trading_fee" -> call.fees.owner_trade_fee_denominator
      [] call.fn = "Fees::host_fee" -> call.fees.host_fee_denominator

(* C29: for a fee fraction that Fees::validate accepts and a token amount  *)
(* for which the fee is computed, the fee of trading_fee,                  *)
(* owner_trading_fee, owner_withdraw_fee and host_fee is at most the token *)
(* amount, so subtracting it from the amount does not underflow.           *)
C29_FeeWithinAmount ==
    (/\ pc = "done"
     /\ call.fn \in FeeMethods
     /\ validate_fraction(C29_Numerator, C29_Denominator) = Ok
     /\ IsSome(result)) =>
        /\ result = calculate_fee(call.token_amount, C29_Numerator, C29_Denominator)
        /\ Unwrap(result) <= call.token_amount
        /\ IsSome(checked_sub(call.token_amount, Unwrap(result)))

(* The minimum fee of one token is charged on an amount of one token *)
C29_Witness ==
    /\ pc = "done"
    /\ call.fn = "Fees::host_fee"
    /\ Fees_validate(call.fees) = Ok
    /\ C29_Numerator > 0
    /\ call.token_amount = 1
    /\ result = Some(1)

---------------------------------------------------------------------------
(* A deposit of one token type at the constant price, then the withdrawal  *)
(* of the same amount of the same token from the pool as the deposit left  *)
(* it                                                                      *)

C30_Minted == Unwrap(result.value)

(* The deposit minted pool tokens in a pool of positive value, and the new supply is one the widths hold *)
C30_Deposited ==
    /\ pc = "done"
    /\ call.fn = "ConstantPriceCurve::deposit_single_token_type"
    /\ TotalValue > 0
    /\ ~result.panicked
    /\ IsSome(result.value)
    /\ C30_Minted <= U128_MAX - call.pool_supply
    /\ GivenValue(call) <= U256_MAX \div (call.pool_supply + C30_Minted + 1)

C30_Withdrawn ==
    ConstantPriceCurve_withdraw_single_token_type_exact_out(
        call.param, call.source_amount,
        IF call.trade_direction = AtoB THEN call.swap_token_a_amount + call.source_amount ELSE call.swap_token_a_amount,
        IF call.trade_direction = BtoA THEN call.swap_token_b_amount + call.source_amount ELSE call.swap_token_b_amount,
        call.pool_supply + C30_Minted, call.trade_direction)

(* C30: at the constant price, depositing x of one token for m pool tokens *)
(* and at once withdrawing x of the same token, on the reserves and supply *)
(* the deposit left, costs at least m pool tokens.                         *)
C30_RoundTripGivesNoProfit ==
    C30_Deposited =>
        /\ ~C30_Withdrawn.panicked
        /\ IsSome(C30_Withdrawn.value)
        /\ Unwrap(C30_Withdrawn.value) >= C30_Minted

C30_Witness ==
    /\ C30_Deposited
    /\ C30_Minted >= 1
    /\ call.trade_direction = BtoA
    /\ IsSome(C30_Withdrawn.value)
    /\ Unwrap(C30_Withdrawn.value) > C30_Minted

=============================================================================
